---- MODULE Spec2Model ----
(***************************************************************************)
(* The range-redis plugin of CoreDHCP: an in-memory address allocator      *)
(* kept in step with lease records held in a TTL store (Redis).            *)
(*                                                                         *)
(*   Handler4   serves one DHCPv4 request (plugin.go 47-85)                *)
(*   setup4     builds the allocator, reloads the stored leases and        *)
(*              starts the expiry goroutine (plugin.go 87-176)             *)
(*   the expiry goroutine frees the address of every lease whose shadow    *)
(*              key expired (plugin.go 145-173)                            *)
(*                                                                         *)
(* Time is counted in ticks, TicksPerSecond of them to a second, so that   *)
(* Round(time.Second) is a real rounding.                                  *)
(***************************************************************************)
EXTENDS Integers, Sequences, FiniteSets, TLC

\* ------------------------------------------------------------------ bounds
NumAddrs == 2
MaxTime == 11
MaxChan == 2
InitExpires == 1

TicksPerSecond == 5
GracePeriod == 1 * TicksPerSecond

\* ------------------------------------------------------------------ values
Inst == {1, 2}
Mac == {"aa:01", "aa:02", "aa:03"}
Known == {"aa:01", "aa:02"}
DurationArgs == {"2s", "1s", "0s", "-1s", "2"}
Range == 1 .. NumAddrs
NoIP == 0
OutOfRange == NumAddrs + 1
AnyIP == Range \cup {OutOfRange}
Slot == {"first", "second"}
NoKey == [IP |-> NoIP, Expires |-> 0, ttl |-> 0]
NoShadow == 0 - 1

VARIABLES
    args,       \* args[3] of setup4: the lease duration as configured
    now,        \* the wall clock, in ticks
    rdb,        \* data keys: rdb[m] is the value and expiry of key "mac:" + m
    shadow,     \* shadow keys: shadow[m] is the expiry of the sentinel of m
    phase,      \* phase[i]: "off", "serving" or "failed" (setup4 returned an error)
    records,    \* records[i]: what GetAllRecords returned to setup4
    allocator,  \* allocator[i]: the addresses the bitmap of instance i holds allocated
    issued,     \* issued[i][a]: Allocate results for a not yet given back by Free
    SubExp,     \* SubExp[i]: the expiry events waiting in the subscription channel
    gc,         \* gc[i]: where the expiry goroutine stands
    req         \* req[i][s]: the Handler4 call in slot s of instance i

vars == <<args, now, rdb, shadow, phase, records, allocator, issued, SubExp, gc, req>>

\* ------------------------------------------------------------------ time
\* time.ParseDuration: a signed number with its unit; without a unit an error.
ParseDuration(s) ==
    CASE s = "2s" -> [ok |-> TRUE, d |-> 2 * TicksPerSecond]
      [] s = "1s" -> [ok |-> TRUE, d |-> 1 * TicksPerSecond]
      [] s = "0s" -> [ok |-> TRUE, d |-> 0]
      [] s = "-1s" -> [ok |-> TRUE, d |-> 0 - TicksPerSecond]
      [] OTHER -> [ok |-> FALSE, d |-> 0]

\* p.LeaseTime, as setup4 sets it.
LeaseTime == ParseDuration(args).d

\* time.Time.Round(time.Second): to the nearest second, halfway values up.
RoundSecond(t) == ((2 * t + TicksPerSecond) \div (2 * TicksPerSecond)) * TicksPerSecond

\* ------------------------------------------------------------------ store
\* A key is readable until its expiry time; Redis never returns an expired key.
Present(m) == rdb[m] # NoKey /\ now < rdb[m].ttl

\* GetRecord: the stored record, the zero Record when the key is missing.
GetRecord(m) ==
    IF Present(m) THEN [IP |-> rdb[m].IP, Expires |-> rdb[m].Expires]
    ELSE [IP |-> NoIP, Expires |-> 0]

\* GetAllRecords: every key of the prefix, records without an address skipped.
GetAllRecords == {m \in Mac : GetRecord(m).IP # NoIP}

\* SaveData without the grace period: both keys expire together.
SaveDataNoGrace(m, ip, expires) ==
    [rdb EXCEPT ![m] = [IP |-> ip, Expires |-> expires, ttl |-> expires]]

\* SaveIPAddress: the data key lives GracePeriod longer than its shadow key.
SaveData(m, ip, expires) ==
    [rdb EXCEPT ![m] = [IP |-> ip, Expires |-> expires, ttl |-> expires + GracePeriod]]

SaveShadow(m, expires) == [shadow EXCEPT ![m] = expires]

\* ------------------------------------------------------------------ allocator
LowestFree(bitmap) == CHOOSE a \in Range \ bitmap : \A b \in Range \ bitmap : a <= b

\* AllocateAny that forgets to set the bit of the address it returns.
AllocateAnyUnmarked(bitmap) ==
    IF Range \ bitmap = {} THEN [ok |-> FALSE, IP |-> NoIP, bitmap |-> bitmap]
    ELSE [ok |-> TRUE, IP |-> LowestFree(bitmap), bitmap |-> bitmap]

\* Allocate with the zero hint: the lowest free address, or no address.
AllocateAny(bitmap) ==
    IF Range \ bitmap = {} THEN [ok |-> FALSE, IP |-> NoIP, bitmap |-> bitmap]
    ELSE [ok |-> TRUE, IP |-> LowestFree(bitmap),
          bitmap |-> bitmap \cup {LowestFree(bitmap)}]

\* Allocate with an address as hint: that address when it is free and in the
\* range. When it is not, the allocator either reports an error or, taking
\* the address as a mere hint (asHint), gives out another address.
AllocateSpecific(bitmap, ip, asHint) ==
    IF ip \in Range \ bitmap THEN [ok |-> TRUE, IP |-> ip, bitmap |-> bitmap \cup {ip}]
    ELSE IF asHint THEN AllocateAny(bitmap)
    ELSE [ok |-> FALSE, IP |-> NoIP, bitmap |-> bitmap]

\* Free that flips the bit instead of clearing it.
FreeFlip(bitmap, ip) ==
    IF ip \notin Range THEN [ok |-> FALSE, bitmap |-> bitmap]
    ELSE [ok |-> TRUE, bitmap |-> IF ip \in bitmap THEN bitmap \ {ip} ELSE bitmap \cup {ip}]

\* Free: clears the bit; an address outside the range is an error.
Free(bitmap, ip) ==
    IF ip \notin Range THEN [ok |-> FALSE, bitmap |-> bitmap]
    ELSE [ok |-> TRUE, bitmap |-> bitmap \ {ip}]

\* ------------------------------------------------------------------ Init
IdleReq ==
    [pc |-> "idle", mac |-> "", IP |-> NoIP, Expires |-> 0, wrote |-> FALSE,
     stop |-> FALSE, err |-> "none"]
IdleGC == [pc |-> "recv", IP |-> NoIP, last |-> "none"]

StoredRecords ==
    {NoKey} \cup {[IP |-> a, Expires |-> InitExpires, ttl |-> InitExpires + GracePeriod] :
                    a \in AnyIP}

Stored ==
    /\ rdb \in [Mac -> StoredRecords]
    /\ \A m \in Mac \ Known : rdb[m] = NoKey
    /\ shadow = [m \in Mac |-> IF rdb[m] = NoKey THEN NoShadow ELSE rdb[m].Expires]
    /\ phase = [i \in Inst |-> "off"]
    /\ records = [i \in Inst |-> {}]
    /\ allocator = [i \in Inst |-> {}]
    /\ issued = [i \in Inst |-> [a \in Range |-> 0]]
    /\ SubExp = [i \in Inst |-> <<>>]
    /\ gc = [i \in Inst |-> IdleGC]
    /\ req = [i \in Inst |-> [s \in Slot |-> IdleReq]]

Init == args = "2s" /\ now = 0 /\ Stored

\* ------------------------------------------------------------------ setup4
\* The loop leaving after the first record.
ReallocateFirstOnly(bitmap, ms, asHint) ==
    IF ms = {} THEN [ok |-> TRUE, bitmap |-> bitmap]
    ELSE LET m == CHOOSE x \in ms : TRUE
             ip == AllocateSpecific(bitmap, rdb[m].IP, asHint)
         IN IF ~ip.ok \/ ip.IP # rdb[m].IP
            THEN [ok |-> FALSE, bitmap |-> {}]
            ELSE [ok |-> TRUE, bitmap |-> ip.bitmap]

\* The loop going on after a failed or mismatched allocation.
RECURSIVE ReallocateUnchecked(_, _, _)
ReallocateUnchecked(bitmap, ms, asHint) ==
    IF ms = {} THEN [ok |-> TRUE, bitmap |-> bitmap]
    ELSE LET m == CHOOSE x \in ms : TRUE
         IN ReallocateUnchecked(AllocateSpecific(bitmap, rdb[m].IP, asHint).bitmap,
                                ms \ {m}, asHint)

\* The loop of setup4 over the loaded records (plugin.go 134-142): every
\* stored address is re-allocated; an error or another address ends setup.
RECURSIVE Reallocate(_, _, _)
Reallocate(bitmap, ms, asHint) ==
    IF ms = {} THEN [ok |-> TRUE, bitmap |-> bitmap]
    ELSE LET m == CHOOSE x \in ms : TRUE
             ip == AllocateSpecific(bitmap, rdb[m].IP, asHint)
         IN IF ~ip.ok \/ ip.IP # rdb[m].IP
            THEN [ok |-> FALSE, bitmap |-> {}]
            ELSE Reallocate(ip.bitmap, ms \ {m}, asHint)

\* plugin.go 117-142: the lease duration is parsed, the records are loaded
\* and re-allocated; the handler is returned when none of these failed.
setup4(i) ==
    /\ phase[i] = "off"
    /\ IF ~ParseDuration(args).ok
       THEN /\ phase' = [phase EXCEPT ![i] = "failed"]
            /\ UNCHANGED <<records, allocator, issued>>
       ELSE \E asHint \in BOOLEAN :
            LET loaded == GetAllRecords
                p == Reallocate({}, loaded, asHint)
            IN /\ records' = [records EXCEPT ![i] = {rdb[m].IP : m \in loaded}]
               /\ phase' = [phase EXCEPT ![i] = IF p.ok THEN "serving" ELSE "failed"]
               /\ allocator' = [allocator EXCEPT ![i] = p.bitmap]
               /\ issued' = [issued EXCEPT ![i] =
                               [a \in Range |-> IF a \in p.bitmap THEN 1 ELSE 0]]
    /\ UNCHANGED <<args, now, rdb, shadow, SubExp, gc, req>>

\* plugin.go 122-130: InitStorage or GetAllRecords fails, setup4 returns the
\* error before any address is allocated.
setup4_StoreError(i) ==
    /\ phase[i] = "off"
    /\ ParseDuration(args).ok
    /\ phase' = [phase EXCEPT ![i] = "failed"]
    /\ UNCHANGED <<args, now, rdb, shadow, records, allocator, issued, SubExp, gc, req>>

\* ------------------------------------------------------------------ Handler4
SaveIPAddress(m, ip, expires) ==
    /\ rdb' = SaveData(m, ip, expires)
    /\ shadow' = SaveShadow(m, expires)

\* The handler taking requests while setup4 has not returned yet.
Handler4_GetRecordEarly(i, s, m) ==
    /\ phase[i] \in {"off", "serving"}
    /\ req[i][s].pc \in {"idle", "done"}
    /\ LET record == GetRecord(m)
       IN req' = [req EXCEPT ![i][s] =
                    [pc |-> "record", mac |-> m, IP |-> record.IP,
                     Expires |-> record.Expires, wrote |-> FALSE,
                     stop |-> FALSE, err |-> "none"]]
    /\ UNCHANGED <<args, now, rdb, shadow, phase, records, allocator, issued, SubExp, gc>>

\* plugin.go 48: the lookup that opens every request.
Handler4_GetRecord(i, s, m) ==
    /\ phase[i] = "serving"
    /\ req[i][s].pc \in {"idle", "done"}
    /\ LET record == GetRecord(m)
       IN req' = [req EXCEPT ![i][s] =
                    [pc |-> "record", mac |-> m, IP |-> record.IP,
                     Expires |-> record.Expires, wrote |-> FALSE,
                     stop |-> FALSE, err |-> "none"]]
    /\ UNCHANGED <<args, now, rdb, shadow, phase, records, allocator, issued, SubExp, gc>>

\* The failed lookup answered with nil, false.
Handler4_GetRecordErrorContinue(i, s, m) ==
    /\ phase[i] = "serving"
    /\ req[i][s].pc \in {"idle", "done"}
    /\ req' = [req EXCEPT ![i][s] =
                 [pc |-> "done", mac |-> m, IP |-> NoIP, Expires |-> 0,
                  wrote |-> FALSE, stop |-> FALSE, err |-> "lookup"]]
    /\ UNCHANGED <<args, now, rdb, shadow, phase, records, allocator, issued, SubExp, gc>>

\* plugin.go 49-52: the lookup fails (the store, or the decoding of the
\* value); the request ends with nil, true.
Handler4_GetRecordError(i, s, m) ==
    /\ phase[i] = "serving"
    /\ req[i][s].pc \in {"idle", "done"}
    /\ req' = [req EXCEPT ![i][s] =
                 [pc |-> "done", mac |-> m, IP |-> NoIP, Expires |-> 0,
                  wrote |-> FALSE, stop |-> TRUE, err |-> "lookup"]]
    /\ UNCHANGED <<args, now, rdb, shadow, phase, records, allocator, issued, SubExp, gc>>

\* The allocation whose error is not looked at.
Handler4_AllocateUnchecked(i, s) ==
    /\ req[i][s].pc = "record"
    /\ req[i][s].IP = NoIP
    /\ LET ip == AllocateAny(allocator[i])
       IN /\ allocator' = [allocator EXCEPT ![i] = ip.bitmap]
          /\ issued' = IF ip.ok THEN [issued EXCEPT ![i][ip.IP] = @ + 1] ELSE issued
          /\ req' = [req EXCEPT ![i][s].pc = "allocated", ![i][s].IP = ip.IP]
    /\ UNCHANGED <<args, now, rdb, shadow, phase, records, SubExp, gc>>

\* plugin.go 54-61: no address in the record, one is taken from the allocator;
\* without a free address the request ends without a response.
Handler4_Allocate(i, s) ==
    /\ req[i][s].pc = "record"
    /\ req[i][s].IP = NoIP
    /\ LET ip == AllocateAny(allocator[i])
       IN /\ allocator' = [allocator EXCEPT ![i] = ip.bitmap]
          /\ issued' = IF ip.ok THEN [issued EXCEPT ![i][ip.IP] = @ + 1] ELSE issued
          /\ req' = [req EXCEPT ![i][s].pc = IF ip.ok THEN "allocated" ELSE "done",
                                ![i][s].IP = ip.IP,
                                ![i][s].stop = ~ip.ok,
                                ![i][s].err = IF ip.ok THEN "none" ELSE "allocate"]
    /\ UNCHANGED <<args, now, rdb, shadow, phase, records, SubExp, gc>>

\* plugin.go 62-70: the new record, expiring a lease time from now, is saved.
Handler4_SaveNew(i, s) ==
    /\ req[i][s].pc = "allocated"
    /\ SaveIPAddress(req[i][s].mac, req[i][s].IP, now + LeaseTime)
    /\ req' = [req EXCEPT ![i][s].pc = "done", ![i][s].wrote = TRUE]
    /\ UNCHANGED <<args, now, phase, records, allocator, issued, SubExp, gc>>

\* The failed save answered by giving the address back and dropping the request.
Handler4_SaveNewErrorRollback(i, s) ==
    /\ req[i][s].pc = "allocated"
    /\ allocator' = [allocator EXCEPT ![i] = @ \ {req[i][s].IP}]
    /\ issued' = [issued EXCEPT ![i][req[i][s].IP] = 0]
    /\ req' = [req EXCEPT ![i][s].pc = "done", ![i][s].IP = NoIP,
                          ![i][s].stop = TRUE, ![i][s].err = "save"]
    /\ UNCHANGED <<args, now, rdb, shadow, phase, records, SubExp, gc>>

\* plugin.go 66-69: saving the new record fails; the error is logged and the
\* response is sent with the address.
Handler4_SaveNewError(i, s) ==
    /\ req[i][s].pc = "allocated"
    /\ req' = [req EXCEPT ![i][s].pc = "done", ![i][s].err = "save"]
    /\ UNCHANGED <<args, now, rdb, shadow, phase, records, allocator, issued, SubExp, gc>>

\* plugin.go 75-78: saving the extended record fails; the error is logged and
\* the response is sent with the address.
Handler4_RenewError(i, s) ==
    /\ req[i][s].pc = "record"
    /\ req[i][s].IP # NoIP
    /\ req[i][s].Expires < now + LeaseTime
    /\ req' = [req EXCEPT ![i][s].pc = "done", ![i][s].Expires = 0, ![i][s].err = "save"]
    /\ UNCHANGED <<args, now, rdb, shadow, phase, records, allocator, issued, SubExp, gc>>

\* The renewal without its condition: every request saves.
Handler4_RenewAlways(i, s) ==
    /\ req[i][s].pc = "record"
    /\ req[i][s].IP # NoIP
    /\ SaveIPAddress(req[i][s].mac, req[i][s].IP, RoundSecond(now + LeaseTime))
    /\ req' = [req EXCEPT ![i][s].pc = "done", ![i][s].Expires = 0, ![i][s].wrote = TRUE]
    /\ UNCHANGED <<args, now, phase, records, allocator, issued, SubExp, gc>>

\* plugin.go 71-80: a record that expires before now + LeaseTime is extended
\* to now + LeaseTime rounded to the second and saved; any other is left alone.
Handler4_Renew(i, s) ==
    /\ req[i][s].pc = "record"
    /\ req[i][s].IP # NoIP
    /\ IF req[i][s].Expires < now + LeaseTime
       THEN /\ SaveIPAddress(req[i][s].mac, req[i][s].IP, RoundSecond(now + LeaseTime))
            /\ req' = [req EXCEPT ![i][s].pc = "done", ![i][s].Expires = 0,
                                  ![i][s].wrote = TRUE]
       ELSE /\ req' = [req EXCEPT ![i][s].pc = "done", ![i][s].Expires = 0]
            /\ UNCHANGED <<rdb, shadow>>
    /\ UNCHANGED <<args, now, phase, records, allocator, issued, SubExp, gc>>

\* ------------------------------------------------------------------ expiry goroutine
\* The goroutine left at the first event that is not of a shadow key.
Expiry_GetRecordReturn(i) ==
    /\ phase[i] = "serving"
    /\ gc[i].pc = "recv"
    /\ SubExp[i] # <<>>
    /\ LET msg == Head(SubExp[i])
       IN gc' = [gc EXCEPT ![i] =
                   IF msg.shadow
                   THEN [pc |-> "free", IP |-> GetRecord(msg.mac).IP, last |-> "none"]
                   ELSE [pc |-> "returned", IP |-> NoIP, last |-> "skipped"]]
    /\ SubExp' = [SubExp EXCEPT ![i] = Tail(@)]
    /\ UNCHANGED <<args, now, rdb, shadow, phase, records, allocator, issued, req>>

\* plugin.go 149-159: the next event; one that is not of a shadow key is
\* skipped, of any other the record is read.
Expiry_GetRecord(i) ==
    /\ phase[i] = "serving"
    /\ gc[i].pc = "recv"
    /\ SubExp[i] # <<>>
    /\ LET msg == Head(SubExp[i])
       IN gc' = [gc EXCEPT ![i] =
                   IF msg.shadow
                   THEN [pc |-> "free", IP |-> GetRecord(msg.mac).IP, last |-> "none"]
                   ELSE [pc |-> "recv", IP |-> NoIP, last |-> "skipped"]]
    /\ SubExp' = [SubExp EXCEPT ![i] = Tail(@)]
    /\ UNCHANGED <<args, now, rdb, shadow, phase, records, allocator, issued, req>>

\* plugin.go 155-159: reading the record of the event fails; the error is
\* logged and the goroutine goes on to the next event.
Expiry_GetRecordError(i) ==
    /\ phase[i] = "serving"
    /\ gc[i].pc = "recv"
    /\ SubExp[i] # <<>>
    /\ Head(SubExp[i]).shadow
    /\ gc' = [gc EXCEPT ![i] = [pc |-> "recv", IP |-> NoIP, last |-> "read error"]]
    /\ SubExp' = [SubExp EXCEPT ![i] = Tail(@)]
    /\ UNCHANGED <<args, now, rdb, shadow, phase, records, allocator, issued, req>>

\* The goroutine freeing the lowest allocated address, whatever the record.
Expiry_FreeLowest(i) ==
    /\ gc[i].pc = "free"
    /\ LET ip == IF allocator[i] = {} THEN NoIP
                 ELSE CHOOSE a \in allocator[i] : \A b \in allocator[i] : a <= b
           err == Free(allocator[i], ip)
       IN /\ allocator' = [allocator EXCEPT ![i] = err.bitmap]
          /\ issued' = IF err.ok /\ issued[i][ip] > 0
                       THEN [issued EXCEPT ![i][ip] = @ - 1] ELSE issued
          /\ gc' = [gc EXCEPT ![i] =
                      [pc |-> "recv", IP |-> NoIP,
                       last |-> IF err.ok THEN "freed" ELSE "error"]]
    /\ UNCHANGED <<args, now, rdb, shadow, phase, records, SubExp, req>>

\* The goroutine logging the address without freeing it.
Expiry_FreeSkipped(i) ==
    /\ gc[i].pc = "free"
    /\ gc' = [gc EXCEPT ![i] = [pc |-> "recv", IP |-> NoIP, last |-> "freed"]]
    /\ UNCHANGED <<args, now, rdb, shadow, phase, records, allocator, issued, SubExp, req>>

\* plugin.go 161-171: the address of the record is freed.
Expiry_Free(i) ==
    /\ gc[i].pc = "free"
    /\ LET err == Free(allocator[i], gc[i].IP)
       IN /\ allocator' = [allocator EXCEPT ![i] = err.bitmap]
          /\ issued' = IF err.ok /\ issued[i][gc[i].IP] > 0
                       THEN [issued EXCEPT ![i][gc[i].IP] = @ - 1] ELSE issued
          /\ gc' = [gc EXCEPT ![i] =
                      [pc |-> "recv", IP |-> NoIP,
                       last |-> IF ~err.ok THEN "error"
                                ELSE IF gc[i].IP \in allocator[i] THEN "freed" ELSE "no-op"]]
    /\ UNCHANGED <<args, now, rdb, shadow, phase, records, SubExp, req>>

\* ------------------------------------------------------------------ the store's clock
Tick ==
    /\ now < MaxTime
    /\ now' = now + 1
    /\ UNCHANGED <<args, rdb, shadow, phase, records, allocator, issued, SubExp, gc, req>>

\* An expired key is removed and every subscriber is sent its name.
Publish(isShadow, m) ==
    /\ \A i \in Inst : phase[i] = "serving" => Len(SubExp[i]) < MaxChan
    /\ SubExp' = [i \in Inst |->
                    IF phase[i] = "serving"
                    THEN Append(SubExp[i], [shadow |-> isShadow, mac |-> m])
                    ELSE SubExp[i]]

ShadowKeyExpired(m) ==
    /\ shadow[m] # NoShadow
    /\ now >= shadow[m]
    /\ shadow' = [shadow EXCEPT ![m] = NoShadow]
    /\ Publish(TRUE, m)
    /\ UNCHANGED <<args, now, rdb, phase, records, allocator, issued, gc, req>>

DataKeyExpired(m) ==
    /\ rdb[m] # NoKey
    /\ now >= rdb[m].ttl
    /\ rdb' = [rdb EXCEPT ![m] = NoKey]
    /\ Publish(FALSE, m)
    /\ UNCHANGED <<args, now, shadow, phase, records, allocator, issued, gc, req>>

\* ------------------------------------------------------------------ specifications
Store ==
    \/ Tick
    \/ \E m \in Mac : ShadowKeyExpired(m)
    \/ \E m \in Mac : DataKeyExpired(m)

Requests(i, slots, macs) ==
    \/ \E s \in slots, m \in macs : Handler4_GetRecord(i, s, m)
    \/ \E s \in slots : Handler4_Allocate(i, s)
    \/ \E s \in slots : Handler4_SaveNew(i, s)
    \/ \E s \in slots : Handler4_Renew(i, s)

ExpiryGoroutine(i) ==
    \/ Expiry_GetRecord(i)
    \/ Expiry_Free(i)

RequestErrors(i, slots, macs) ==
    \/ \E s \in slots, m \in macs : Handler4_GetRecordError(i, s, m)
    \/ \E s \in slots : Handler4_SaveNewError(i, s)
    \/ \E s \in slots : Handler4_RenewError(i, s)

\* One server on a store that may hold leases already, one request at a time.
Next == Store \/ setup4(1) \/ Requests(1, {"first"}, Known) \/ ExpiryGoroutine(1)

Spec == Init /\ [][Next]_vars

\* One server with two requests in flight, in the instant in which the
\* leases it found in the store expire.
NextConcurrent ==
    \/ \E m \in Mac : ShadowKeyExpired(m)
    \/ setup4(1) \/ Requests(1, Slot, Known) \/ ExpiryGoroutine(1)

InitConcurrent == args = "2s" /\ now = InitExpires /\ Stored

SpecConcurrent == InitConcurrent /\ [][NextConcurrent]_vars

\* Two servers of the same range on the same, empty, store, while no key expires.
NextShared == \E i \in Inst : setup4(i) \/ Requests(i, {"first"}, Known)

InitShared == args = "2s" /\ now = 0 /\ Stored /\ rdb = [m \in Mac |-> NoKey]

SpecShared == InitShared /\ [][NextShared]_vars

\* One server on an empty store, one client more than the range has
\* addresses, while no key expires.
NextExhaust == setup4(1) \/ Requests(1, Slot, Mac)

InitExhaust == args = "2s" /\ now = 0 /\ Stored /\ rdb = [m \in Mac |-> NoKey]

SpecExhaust == InitExhaust /\ [][NextExhaust]_vars

\* One server, one request at a time, on a store that holds at most one lease
\* and whose every operation may fail.
NextFaulty ==
    \/ Next
    \/ setup4_StoreError(1)
    \/ RequestErrors(1, {"first"}, Known)
    \/ Expiry_GetRecordError(1)

InitFaulty == args = "2s" /\ now = 0 /\ Stored /\ Cardinality(GetAllRecords) <= 1

SpecFaulty == InitFaulty /\ [][NextFaulty]_vars

\* One server on an empty store, with every lease duration the configuration
\* may give it.
InitConfig ==
    /\ args \in DurationArgs
    /\ now = TicksPerSecond
    /\ Stored
    /\ rdb = [m \in Mac |-> NoKey]

SpecConfig == InitConfig /\ [][Next]_vars

\* One server on an empty store with a lease of one second, its expiry
\* goroutine never starved: an event in the channel is read, an address read
\* from a record is passed to Free.
InitLive == args = "1s" /\ now = 0 /\ Stored /\ rdb = [m \in Mac |-> NoKey]

SpecLive ==
    /\ InitLive
    /\ [][Next]_vars
    /\ WF_vars(Expiry_GetRecord(1))
    /\ WF_vars(Expiry_Free(1))

\* ------------------------------------------------------------------ claims
\* A lease is held by m while its record is readable and not yet expired.
Leased(m) == Present(m) /\ now < rdb[m].Expires

MidRequest(i) == \E s \in Slot : req[i][s].pc \in {"record", "allocated"}

\* C1: once the server serves, no address is the address of the unexpired
\* records of two different clients.
C1_NoDoubleIssue ==
    phase[1] = "serving" =>
        \A m1, m2 \in Mac :
            m1 # m2 /\ Leased(m1) /\ Leased(m2) => rdb[m1].IP # rdb[m2].IP

\* C2: the allocator never has an address out twice: every address of the
\* range was returned by at most one Allocate not followed by its Free, and
\* the allocated addresses are those and lie in the range.
C2_NoDoubleAllocation ==
    /\ allocator[1] \subseteq Range
    /\ \A a \in Range : issued[1][a] <= 1
    /\ allocator[1] = {a \in Range : issued[1][a] = 1}

C2_Witness ==
    /\ records[1] # {}
    /\ gc[1].last = "freed"
    /\ req[1]["first"].pc = "allocated"
    /\ req[1]["second"].pc = "allocated"
    /\ req[1]["first"].IP # req[1]["second"].IP

\* C3: once the server serves and no request is being handled, the address of
\* every unexpired record is allocated in the allocator.
C3_RecordsAllocated ==
    phase[1] = "serving" /\ ~MidRequest(1) =>
        \A m \in Mac : Leased(m) => rdb[m].IP \in allocator[1]

\* The store holds only records setup4 can re-allocate: in the range, no
\* address twice.
ValidStore ==
    \A m \in GetAllRecords :
        /\ rdb[m].IP \in Range
        /\ \A n \in GetAllRecords : n # m => rdb[n].IP # rdb[m].IP

Allocating(i, s) == req[i][s].pc = "record" /\ req'[i][s].pc = "allocated"

\* C4 as stated: after a successful setup no new client is ever given an
\* address setup4 found in the store.
C4_NeverAStoredAddress ==
    \A s \in Slot : req[1][s].pc = "allocated" => req[1][s].IP \notin records[1]

\* C4 amended: on a valid store setup4 succeeds and leaves exactly the stored
\* addresses allocated; a new client is not given one of them until the
\* expiry goroutine has freed it.
C4_ReconciliationFidelity ==
    /\ [][phase[1] = "off" /\ phase'[1] # "off" /\ ValidStore
            => /\ phase'[1] = "serving"
               /\ allocator'[1] = {rdb[m].IP : m \in GetAllRecords}]_vars
    /\ [][\A s \in Slot :
            Allocating(1, s) => req'[1][s].IP \notin records[1] \cap allocator[1]]_vars

C4_Witness ==
    /\ Cardinality(records[1]) = 1
    /\ records[1] \subseteq allocator[1]
    /\ \E s \in Slot : req[1][s].pc = "allocated" /\ req[1][s].IP \notin records[1]

\* C5: on a store with an address out of the range or held by two records
\* setup4 fails, and a server whose setup failed stays failed, serves no
\* request, runs no expiry goroutine and keeps no allocator.
C5_StartupFailFast ==
    /\ [][phase[1] = "off" /\ phase'[1] # "off" /\ ~ValidStore
            => phase'[1] = "failed"]_vars
    /\ [][phase[1] = "failed" => phase'[1] = "failed"]_vars
    /\ [](phase[1] = "failed" =>
            /\ \A s \in Slot : req[1][s] = IdleReq
            /\ gc[1] = IdleGC
            /\ SubExp[1] = <<>>
            /\ allocator[1] = {})

C5_Witness ==
    /\ phase[1] = "failed"
    /\ now > 0
    /\ \E m, n \in Mac : m # n /\ rdb[m] # NoKey /\ rdb[m].IP = rdb[n].IP

\* C6: with two servers on one store, no address is in the store as the lease
\* of two different clients.
C6_SharedStoreNoDoubleIssue ==
    \A m1, m2 \in Mac :
        m1 # m2 /\ Present(m1) /\ Present(m2) => rdb[m1].IP # rdb[m2].IP

\* C7: a request for a client that has a record never writes an expiresAt
\* earlier than the one it read.
C7_RenewalMonotonic ==
    [][\A s \in Slot :
          req[1][s].pc = "record" /\ req[1][s].IP # NoIP /\ req'[1][s].wrote
              => rdb'[req[1][s].mac].Expires >= req[1][s].Expires]_vars

Renewing(i, s) ==
    req[i][s].pc = "record" /\ req[i][s].IP # NoIP /\ req'[i][s].pc = "done"

\* C8 as stated: a request one second after the record was written with
\* expiresAt = writeTime + leaseTime writes nothing.
C8_NoWriteFarBeforeExpiry ==
    [][\A s \in Slot :
          Renewing(1, s) /\ req[1][s].Expires = (now - TicksPerSecond) + LeaseTime
              => ~req'[1][s].wrote /\ rdb' = rdb]_vars

\* C8 amended: a request for a record whose expiresAt is not before
\* now + leaseTime leaves the record as it is and writes nothing.
C8_NoWriteUnlessExtending ==
    [][\A s \in Slot :
          Renewing(1, s) /\ req[1][s].Expires >= now + LeaseTime
              => ~req'[1][s].wrote /\ rdb' = rdb /\ shadow' = shadow]_vars

C8_Witness ==
    \E s \in Slot :
        /\ req[1][s].pc = "done" /\ req[1][s].IP # NoIP /\ ~req[1][s].wrote
        /\ Present(req[1][s].mac)
        /\ rdb[req[1][s].mac].Expires >= now + LeaseTime

\* C9: freeing an address twice leaves the allocator as freeing it once does,
\* and freeing a free address leaves it as it was, also when the expiry
\* goroutine does so for a second event of the same record.
C9_IdempotentFree ==
    /\ [](\A a \in AnyIP \cup {NoIP} :
            LET once == Free(allocator[1], a).bitmap
            IN /\ Free(once, a).bitmap = once
               /\ a \notin allocator[1] => once = allocator[1])
    /\ [][gc[1].pc = "free" /\ gc'[1].pc = "recv" /\ gc[1].IP \notin allocator[1]
            => allocator'[1] = allocator[1]]_vars

C9_Witness == gc[1].last = "no-op" /\ allocator[1] # {}

NewClient(i, s) == req[i][s].pc = "record" /\ req[i][s].IP = NoIP

\* C11: on an empty store and while nothing expires, a new client is given
\* the lowest address not yet given, so the addresses out are 1 .. k and no
\* two records hold the same; with the whole range out a new client's request
\* ends without a response on the allocator's error and leaves the allocator
\* and the store as they were.
C11_RangeExhaustion ==
    /\ [](allocator[1] = 1 .. Cardinality(allocator[1]))
    /\ [][\A s \in Slot :
            NewClient(1, s) /\ req'[1][s] # req[1][s] /\ allocator[1] # Range
                => /\ req'[1][s].pc = "allocated"
                   /\ req'[1][s].IP = Cardinality(allocator[1]) + 1
                   /\ allocator'[1] = allocator[1] \cup {req'[1][s].IP}]_vars
    /\ [][\A s \in Slot :
            NewClient(1, s) /\ req'[1][s] # req[1][s] /\ allocator[1] = Range
                => /\ req'[1][s].pc = "done"
                   /\ req'[1][s].IP = NoIP
                   /\ req'[1][s].err = "allocate"
                   /\ allocator' = allocator
                   /\ rdb' = rdb /\ shadow' = shadow]_vars

C11_Witness ==
    /\ Cardinality({rdb[m].IP : m \in {n \in Mac : Present(n)}}) = NumAddrs
    /\ \E s \in Slot :
          /\ req[1][s].pc = "done" /\ req[1][s].err = "allocate"
          /\ ~Present(req[1][s].mac)

\* C12: the expiry goroutine reading the event of a shadow key while the data
\* key is readable takes the address of that record, and its Free leaves the
\* allocator without exactly that address. (That a new client may then be
\* given the address is C12_Witness.)
C12_ExpiryRelease ==
    /\ [][gc[1].pc = "recv" /\ gc'[1].pc = "free" /\ Present(Head(SubExp[1]).mac)
            => gc'[1].IP = rdb[Head(SubExp[1]).mac].IP]_vars
    /\ [][gc[1].pc = "free" /\ gc'[1].pc = "recv" /\ gc[1].IP \in Range
            => allocator'[1] = allocator[1] \ {gc[1].IP}]_vars

C12_Witness ==
    /\ gc[1].last = "freed"
    /\ \E s \in Slot, m \in Mac :
          /\ req[1][s].pc = "allocated"
          /\ req[1][s].mac # m
          /\ Present(m)
          /\ rdb[m].IP = req[1][s].IP

\* C13 as stated: every finished request returned false as its second value.
C13_FlagAlwaysFalse ==
    \A s \in Slot : req[1][s].pc = "done" => req[1][s].stop = FALSE

\* C13 amended: the second value Handler4 returns is false with a response
\* and true without one: true after a failed lookup and after a failed
\* allocation, false on every other path.
C13_FlagByPath ==
    \A s \in Slot :
        req[1][s].pc = "done" =>
            /\ req[1][s].stop = (req[1][s].err \in {"lookup", "allocate"})
            /\ req[1][s].stop = (req[1][s].IP = NoIP)

C13_Witness ==
    \E s \in Slot :
        /\ req[1][s].pc = "done"
        /\ req[1][s].err = "allocate"
        /\ req[1][s].stop
        /\ \E m \in Mac : Present(m) /\ rdb[m].IP \in allocator[1]

\* C14: with a lease duration that is zero or negative setup4 returns no
\* handler, so that no record is saved with an expiresAt that is not after
\* the time of the save.
C14_BadLeaseRejected ==
    /\ ParseDuration(args).d <= 0 => phase[1] # "serving"
    /\ \A s \in Slot : req[1][s].pc = "allocated" => now + LeaseTime > now

\* C15: no request is handled and no expiry event is read before setup4 has
\* re-allocated every address it loaded and returned the handler; when setup4
\* fails, for whatever reason, none ever is.
C15_StartupOrdering ==
    /\ [][gc'[1] # gc[1] \/ req'[1] # req[1]
            => phase[1] = "serving" /\ phase'[1] = "serving"]_vars
    /\ [][phase[1] = "off" /\ phase'[1] = "serving"
            => /\ records'[1] = {rdb[m].IP : m \in GetAllRecords}
               /\ allocator'[1] = records'[1]]_vars
    /\ [][phase[1] = "failed" => phase'[1] = "failed"]_vars
    /\ [](phase[1] # "serving" =>
            /\ gc[1] = IdleGC
            /\ \A s \in Slot : req[1][s] = IdleReq)

C15_Witness ==
    /\ phase[1] = "serving"
    /\ records[1] # {}
    /\ gc[1].last = "freed"
    /\ \E s \in Slot : req[1][s].pc = "done" /\ req[1][s].IP \in records[1]

\* The expiry goroutine takes a step.
ExpiryStep ==
    \/ gc'[1] # gc[1]
    \/ SubExp[1] # <<>> /\ SubExp'[1] = Tail(SubExp[1])

\* C16: an event the goroutine fails on (the record cannot be read, the
\* record is gone and its address is the zero address, the allocator rejects
\* the Free) and an event that is not of a shadow key leave the allocator and
\* the store as they were; the goroutine takes exactly that event from the
\* channel, never leaves its loop, and reads the next event whenever one waits.
C16_ExpiryLoopRobust ==
    /\ [][ExpiryStep /\ gc'[1].last \in {"read error", "error", "skipped"}
            => /\ allocator' = allocator
               /\ rdb' = rdb /\ shadow' = shadow
               /\ gc'[1].pc = "recv"]_vars
    /\ [][gc[1].pc = "free" /\ gc[1].IP = NoIP /\ gc'[1] # gc[1]
            => gc'[1].last = "error"]_vars
    /\ [][gc[1].pc = "recv" /\ ExpiryStep => SubExp'[1] = Tail(SubExp[1])]_vars
    /\ [](gc[1].pc \in {"recv", "free"})
    /\ [](phase[1] = "serving" /\ gc[1].pc = "recv" /\ SubExp[1] # <<>>
            => ENABLED Expiry_GetRecord(1))

C16_Witness ==
    /\ gc[1].last = "error"
    /\ allocator[1] # {}
    /\ \E m \in Mac : rdb[m] # NoKey /\ ~Present(m)
    /\ SubExp[1] # <<>>

\* Nothing is left to happen unless a client sends a request: every record
\* and every shadow key is gone, no event waits, no request is being handled.
Quiescent ==
    /\ phase[1] = "serving"
    /\ \A m \in Mac : ~Present(m) /\ shadow[m] = NoShadow
    /\ SubExp[1] = <<>>
    /\ gc[1].pc = "recv"
    /\ ~MidRequest(1)

\* C17 as stated: once every record has expired and every expiry event has
\* been handled, no address is left allocated, whenever the events were
\* handled.
C17_EventualRelease == Quiescent => allocator[1] = {}

\* C17 amended: the goroutine reading an event while the data key is readable
\* takes the address of the record, and that address is eventually free; read
\* after the grace period the event yields the zero address and the allocator
\* stays as it is.
C17_ReleaseWithinGrace ==
    /\ \A a \in Range : (gc[1].pc = "free" /\ gc[1].IP = a) ~> (a \notin allocator[1])
    /\ [][gc[1].pc = "recv" /\ gc'[1].pc = "free"
            => gc'[1].IP = IF Present(Head(SubExp[1]).mac)
                           THEN rdb[Head(SubExp[1]).mac].IP ELSE NoIP]_vars
    /\ [][gc[1].pc = "free" /\ gc[1].IP = NoIP /\ gc'[1].pc = "recv"
            => allocator' = allocator]_vars

C17_Witness ==
    /\ Quiescent
    /\ gc[1].last = "freed"
    /\ allocator[1] = {}
    /\ \E s \in Slot : req[1][s].pc = "done" /\ req[1][s].wrote

\* The request in slot s ends in this step with the error e.
EndsWith(s, e) == req'[1][s] # req[1][s] /\ req'[1][s].pc = "done" /\ req'[1][s].err = e

\* C18: a request whose lookup fails ends without a response and leaves the
\* allocator and the store as they were; a request whose save fails, of a new
\* record or of an extended one, is answered with the address and leaves the
\* allocator as it is: the failure gives no address back.
C18_ErrorIsolation ==
    /\ [][\A s \in Slot :
            EndsWith(s, "lookup")
                => /\ req'[1][s].IP = NoIP
                   /\ allocator' = allocator
                   /\ rdb' = rdb /\ shadow' = shadow]_vars
    /\ [][\A s \in Slot :
            EndsWith(s, "save")
                => /\ req'[1][s].IP = req[1][s].IP
                   /\ req'[1][s].IP \in Range
                   /\ ~req'[1][s].stop
                   /\ allocator' = allocator
                   /\ rdb' = rdb /\ shadow' = shadow]_vars

C18_Witness ==
    \E s \in Slot :
        /\ req[1][s].pc = "done"
        /\ req[1][s].err = "save"
        /\ req[1][s].IP \in allocator[1]
        /\ ~Present(req[1][s].mac)

\* C19: with no request being handled, no more addresses are allocated than
\* clients hold a record: every client accounts for at most one address, also
\* when two of its requests are handled at the same time.
C19_OneAddressPerClient ==
    ~MidRequest(1) =>
        Cardinality(allocator[1]) <= Cardinality({m \in Mac : Present(m)})

\* The request in slot s is answered in this step with an address.
Answered(s) ==
    /\ req[1][s].pc \in {"record", "allocated"}
    /\ req'[1][s].pc = "done"
    /\ req'[1][s].IP # NoIP

\* C20: a response for a client whose record is readable carries the address
\* of that record and leaves the record's address as it is; a request that
\* found a record leaves the allocator alone.
C20_AddressStability ==
    /\ [][\A s \in Slot :
            Answered(s) /\ Present(req[1][s].mac)
                => /\ req'[1][s].IP = rdb[req[1][s].mac].IP
                   /\ rdb'[req[1][s].mac].IP = rdb[req[1][s].mac].IP]_vars
    /\ [][\A s \in Slot : Renewing(1, s) => allocator' = allocator]_vars

====
